---- MODULE Spec2Model ----
(***************************************************************************)
(* State-machine model of scripts/sync_playlist.py: one process that       *)
(* fetches playlists page by page, normalises the items into rows, merges  *)
(* the manual overrides found in the previous CSV file and rewrites the    *)
(* file.  Text values that the code slices or matches (dates, urls) are    *)
(* sequences of one-character strings; other text values are strings.      *)
(***************************************************************************)
EXTENDS Naturals, Sequences, FiniteSets, TLC

VARIABLES
    pc,            \* position of the process in main / sync_one
    playlists_file,\* playlists.json: absent, or its content (main, lines 180-184)
    CATEGORY_ID,   \* environment variable of the run (line 21)
    to_sync,       \* main: the selected targets
    idx,           \* main: index in to_sync of the target being synced
    token,         \* main: the bearer token
    playlist_id,   \* sync_one: the extracted playlist id
    url,           \* get_playlist_tracks: the url of the next request
    items,         \* get_playlist_tracks / sync_one: the items fetched so far
    overrides,     \* sync_one: the loaded overrides
    rows,          \* sync_one: the rows built
    stdout,        \* lines printed while syncing the current target
    err,           \* the uncaught exception that ended the run, or NoError
    files,         \* data/<id>.csv for every configured id: the durable state
    files0,        \* history: files when the run started
    served,        \* history: the items of the pages served to the current fetch, in order
    nreq,          \* history: the page requests answered in the current fetch
    full,          \* history: how many of the pages served held items
    more,          \* history: the page served last had a next page
    requests,      \* history: the HTTP requests issued by the run
    written,       \* history: the rows handed to write_csv per synced target
    kept,          \* history: per id, the overrides a user stored and no sync dropped,
                   \* and the ids whose stored override a sync dropped
    runs           \* number of runs started

vars == <<pc, playlists_file, CATEGORY_ID, to_sync, idx, token, playlist_id, url,
          items, overrides, rows, stdout, err, files, files0, served, nreq, full, more,
          requests, written, kept, runs>>

----------------------------------------------------------------------------
(* Bounds of the model *)

MaxSyncs == 2   \* successive runs of the script
MaxItems == 2   \* items of one remote collection
MaxPages == 2   \* pages of one remote collection

----------------------------------------------------------------------------
(* Values *)

None == "None"

NoError == [type |-> "none", at |-> "none"]

CSV_COLUMNS == <<"title", "artist", "year_spotify", "year_override",
                 "title_override",
                 "spotifyId", "type", "embed", "cover", "playlist_url">>

\* A text that the utf-8 codec cannot encode (a lone surrogate from JSON).
Surrogate == "\\ud83d"

Alnum == {"A","B","C","D","E","F","G","H","I","J","K","L","M","N","O","P","Q","R",
          "S","T","U","V","W","X","Y","Z",
          "a","b","c","d","e","f","g","h","i","j","k","l","m","n","o","p","q","r",
          "s","t","u","v","w","x","y","z",
          "0","1","2","3","4","5","6","7","8","9"}

UrlX == <<"h","t","t","p","s",":","/","/","x","/","p","l","a","y","l","i","s","t",
          "/","A","B","C","1","2","3","?","s","i","=","9">>
UrlY == <<"Q","r","s","7">>
UrlW == <<"n","o","t"," ","a"," ","v","a","l","i","d"," ","r","e","f","!">>

TargetX == [id |-> "x", playlist_url |-> UrlX]
TargetY == [id |-> "y", playlist_url |-> UrlY, type |-> "albums"]
TargetW == [id |-> "w", playlist_url |-> UrlW, type |-> "tracks"]

Date1994 == <<"1","9","9","4","-","0","3","-","0","1">>
Date87   == <<"8","7">>

ItemA == [added_at |-> "d1",
          track |-> [id |-> "t1", name |-> "Song", is_local |-> FALSE,
                     artists |-> <<[name |-> "Ann"], [name |-> "Bob"]>>,
                     album |-> [id |-> "a1", name |-> "LP",
                                release_date |-> Date1994,
                                artists |-> <<[name |-> "Ann"]>>,
                                images |-> <<[url |-> "c1"], [url |-> "c2"]>>]]]

\* The same track and album ids as ItemA, every other field different.
ItemA2 == [added_at |-> "d2",
           track |-> [id |-> "t1", name |-> "Song (Live)",
                      artists |-> <<[name |-> "Cy"]>>,
                      album |-> [id |-> "a1", name |-> "LP Deluxe",
                                 release_date |-> Date87,
                                 artists |-> <<[name |-> "Cy"], [name |-> "Di"]>>,
                                 images |-> <<>>]]]

ItemB == [added_at |-> "d3",
          track |-> [id |-> "t2", name |-> "Other", is_local |-> FALSE,
                     album |-> [id |-> "a2", name |-> "EP"]]]

ItemLocal == [added_at |-> "d4",
              track |-> [id |-> None, name |-> "rip.mp3", is_local |-> TRUE]]

\* "track": null
ItemNoTrack == [added_at |-> "d5"]

\* No "name" in the track, no "id" in the album.
ItemBad == [added_at |-> "d6",
            track |-> [id |-> "t3", is_local |-> FALSE,
                       album |-> [name |-> "X"]]]

ItemSur == [added_at |-> "d7",
            track |-> [id |-> "t4", name |-> Surrogate, is_local |-> FALSE,
                       album |-> [id |-> "a4", name |-> Surrogate]]]

Items == {ItemA, ItemA2, ItemB, ItemLocal, ItemNoTrack, ItemBad, ItemSur}

----------------------------------------------------------------------------
(* Helpers *)

\* dict.get(k, default)
Get(d, k, default) == IF k \in DOMAIN d THEN d[k] ELSE default

SeqsUpTo(S, n) == UNION {[1..k -> S] : k \in 0..n}

Min(S) == CHOOSE m \in S : \A k \in S : m <= k

----------------------------------------------------------------------------
(* Spotify API helpers *)

PlaylistLit == <<"p","l","a","y","l","i","s","t","/">>

\* re.search(r"playlist/([A-Za-z0-9]+)", url) matches at position i
MatchAt(u, i) ==
    /\ i + Len(PlaylistLit) <= Len(u)
    /\ SubSeq(u, i, i + Len(PlaylistLit) - 1) = PlaylistLit
    /\ u[i + Len(PlaylistLit)] \in Alnum

\* the greedy group [A-Za-z0-9]+ that starts at position s
AlnumRun(u, s) ==
    LET ends == {e \in s..Len(u) : \A k \in s..e : u[k] \in Alnum}
    IN  SubSeq(u, s, CHOOSE e \in ends : \A f \in ends : f <= e)

extract_playlist_id(u) ==
    LET starts == {i \in 1..Len(u) : MatchAt(u, i)}
    IN  IF starts # {}
        THEN [raised |-> FALSE, id |-> AlnumRun(u, Min(starts) + Len(PlaylistLit))]
        ELSE IF Len(u) > 0 /\ \A k \in 1..Len(u) : u[k] \in Alnum
        THEN [raised |-> FALSE, id |-> u]
        ELSE [raised |-> TRUE, id |-> <<>>]

parse_year(date_str) ==
    SubSeq(date_str, 1, IF Len(date_str) < 4 THEN Len(date_str) ELSE 4)

best_cover(images) == IF images # <<>> THEN images[1].url ELSE ""

\* ", ".join(a["name"] for a in artists)
RECURSIVE JoinNames(_)
JoinNames(artists) ==
    IF artists = <<>> THEN ""
    ELSE IF Len(artists) = 1 THEN artists[1].name
    ELSE artists[1].name \o ", " \o JoinNames(Tail(artists))

----------------------------------------------------------------------------
(* Row builders: the result is a row, no row (None) or a KeyError *)

NoRow    == [kind |-> "none"]
KeyError == [kind |-> "raise"]
ARow(r)  == [kind |-> "row", row |-> r]

\* Faulty variant: local tracks are not skipped.
Skipped_IgnoresLocal(item) == "track" \notin DOMAIN item

\* item.get("track") is falsy or the track is local
Skipped(item) ==
    \/ "track" \notin DOMAIN item
    \/ Get(item.track, "is_local", FALSE)

track_row(item, playlist_url) ==
    IF Skipped(item) THEN NoRow
    ELSE LET track == item.track
             album == Get(track, "album", [none |-> TRUE])
         IN  IF "name" \notin DOMAIN track \/ "id" \notin DOMAIN track
             THEN KeyError
             ELSE ARow([title          |-> track.name,
                        artist         |-> JoinNames(Get(track, "artists", <<>>)),
                        year_spotify   |-> parse_year(Get(album, "release_date", <<>>)),
                        year_override  |-> "",
                        spotifyId      |-> track.id,
                        type           |-> "track",
                        embed          |-> "true",
                        cover          |-> best_cover(Get(album, "images", <<>>)),
                        title_override |-> "",
                        playlist_url   |-> playlist_url])

album_row(item, playlist_url) ==
    IF Skipped(item) THEN NoRow
    ELSE LET track == item.track
             album == Get(track, "album", [none |-> TRUE])
         IN  IF "name" \notin DOMAIN album \/ "id" \notin DOMAIN album
             THEN KeyError
             ELSE ARow([title          |-> album.name,
                        artist         |-> JoinNames(Get(album, "artists", <<>>)),
                        year_spotify   |-> parse_year(Get(album, "release_date", <<>>)),
                        year_override  |-> "",
                        spotifyId      |-> album.id,
                        type           |-> "album",
                        embed          |-> "true",
                        cover          |-> best_cover(Get(album, "images", <<>>)),
                        title_override |-> "",
                        playlist_url   |-> playlist_url])

----------------------------------------------------------------------------
(* CSV helpers.  A file is absent or a sequence of lines, each a sequence  *)
(* of fields; the first line is the header.                                *)

NoFile == [exists |-> FALSE, lines |-> <<>>]

\* the position of a column in a line (the fixed column order)
Col(c) == CHOOSE j \in 1..Len(CSV_COLUMNS) : CSV_COLUMNS[j] = c

AFile(ls) == [exists |-> TRUE, lines |-> ls]

\* csv.DictWriter.writerow: the fields of the row in the order of fieldnames
LineOf(row) == [j \in 1..Len(CSV_COLUMNS) |-> row[CSV_COLUMNS[j]]]

\* csv.DictReader: one dict per line after the first, keyed by the header
DictReader(f) ==
    IF Len(f.lines) = 0 THEN <<>>
    ELSE LET header == f.lines[1]
             at(c)  == CHOOSE j \in 1..Len(header) : header[j] = c
         IN  [i \in 1..(Len(f.lines) - 1) |->
                 [c \in {header[j] : j \in 1..Len(header)} |-> f.lines[i + 1][at(c)]]]

\* Faulty variant: only year_override is read back.
load_overrides_YearOnly(f) ==
    IF ~f.exists THEN [sid \in {} |-> 0]
    ELSE LET ds == DictReader(f)
         IN  [sid \in {ds[i].spotifyId : i \in 1..Len(ds)} |->
                 [year_override |->
                      (CHOOSE d \in {ds[i] : i \in 1..Len(ds)} : d.spotifyId = sid).year_override]]

load_overrides(f) ==
    IF ~f.exists THEN [sid \in {} |-> 0]
    ELSE LET ds    == DictReader(f)
             valid == {i \in 1..Len(ds) : Get(ds[i], "spotifyId", "") # ""}
             last(sid) == CHOOSE i \in valid :
                              /\ ds[i].spotifyId = sid
                              /\ \A k \in valid : ds[k].spotifyId = sid => k <= i
         IN  [sid \in {ds[i].spotifyId : i \in valid} |->
                 [year_override  |-> Get(ds[last(sid)], "year_override", ""),
                  title_override |-> Get(ds[last(sid)], "title_override", "")]]

\* The utf-8 codec of the file rejects the line (UnicodeEncodeError).
TextColumns == {"title", "artist", "year_override", "title_override", "spotifyId",
                "type", "embed", "cover"}

Unencodable(row) == \E c \in TextColumns : row[c] = Surrogate

\* write_csv: open(path, "w") truncates, the header is written and then the
\* rows one by one; the first row that cannot be encoded raises and leaves
\* what was written before it.
\* Faulty variant: the file is opened with mode "a".
write_csv_append(old, rs) ==
    [raised |-> FALSE,
     file   |-> AFile(old.lines \o <<CSV_COLUMNS>>
                      \o [i \in 1..Len(rs) |-> [j \in 1..Len(CSV_COLUMNS) |->
                                                    rs[i][CSV_COLUMNS[j]]]])]

write_csv(old, rs) ==
    LET bad == {i \in 1..Len(rs) : Unencodable(rs[i])}
        n   == IF bad = {} THEN Len(rs) ELSE Min(bad) - 1
    IN  [raised |-> bad # {},
         file   |-> AFile(<<CSV_COLUMNS>> \o [i \in 1..n |-> LineOf(rs[i])])]

----------------------------------------------------------------------------
(* sync_one, lines 159-172: the loop over the fetched items *)

\* Faulty variant: title_override is not restored.
ApplyOverrides_YearOnly(row, ovr) ==
    IF row.spotifyId \in DOMAIN ovr
    THEN [row EXCEPT !.year_override = ovr[row.spotifyId].year_override]
    ELSE row

\* Faulty variant: the title override lands in the title.
ApplyOverrides_IntoTitle(row, ovr) ==
    IF row.spotifyId \in DOMAIN ovr
    THEN [row EXCEPT !.year_override  = ovr[row.spotifyId].year_override,
                     !.title_override = ovr[row.spotifyId].title_override,
                     !.title = IF ovr[row.spotifyId].title_override # ""
                               THEN ovr[row.spotifyId].title_override ELSE @]
    ELSE row

\* lines 169-171
ApplyOverrides(row, ovr) ==
    IF row.spotifyId \in DOMAIN ovr
    THEN [row EXCEPT !.year_override  = Get(ovr[row.spotifyId], "year_override", ""),
                     !.title_override = Get(ovr[row.spotifyId], "title_override", "")]
    ELSE row

\* line 162
RowFor(item, cat_type, playlist_url) ==
    IF cat_type = "albums" THEN album_row(item, playlist_url)
    ELSE track_row(item, playlist_url)

\* Faulty variant: a later item with the same id replaces the row of the earlier one.
Append1_KeepLast(acc, row, ovr) ==
    IF row.spotifyId \in acc.seen
    THEN [acc EXCEPT !.rows = [i \in 1..Len(@) |->
                                  IF @[i].spotifyId = row.spotifyId
                                  THEN IF row.spotifyId \in DOMAIN ovr
                                       THEN [row EXCEPT
                                               !.year_override = ovr[row.spotifyId].year_override,
                                               !.title_override = ovr[row.spotifyId].title_override]
                                       ELSE row
                                  ELSE @[i]]]
    ELSE [acc EXCEPT !.seen = @ \cup {row.spotifyId},
                     !.rows = Append(@, IF row.spotifyId \in DOMAIN ovr
                                        THEN [row EXCEPT
                                                !.year_override = ovr[row.spotifyId].year_override,
                                                !.title_override = ovr[row.spotifyId].title_override]
                                        ELSE row)]

\* lines 166-168 and 172
Append1(acc, row, ovr) ==
    IF row.spotifyId \in acc.seen THEN acc
    ELSE [acc EXCEPT !.seen = @ \cup {row.spotifyId},
                     !.rows = Append(@, ApplyOverrides(row, ovr))]

RECURSIVE BuildFrom(_, _, _, _, _)
BuildFrom(its, cat_type, playlist_url, ovr, acc) ==
    IF its = <<>> THEN acc
    ELSE LET r == RowFor(Head(its), cat_type, playlist_url)
         IN  IF r = KeyError THEN [acc EXCEPT !.raised = TRUE]
             ELSE IF r = NoRow
             THEN BuildFrom(Tail(its), cat_type, playlist_url, ovr, acc)
             ELSE BuildFrom(Tail(its), cat_type, playlist_url, ovr,
                            Append1(acc, r.row, ovr))

BuildRows(its, cat_type, playlist_url, ovr) ==
    BuildFrom(its, cat_type, playlist_url, ovr,
              [raised |-> FALSE, rows |-> <<>>, seen |-> {}])

----------------------------------------------------------------------------
(* The process *)

Configs == {<<TargetX, TargetY>>, <<TargetX, TargetW, TargetY>>, <<TargetX>>, <<TargetY>>}

Selectors == {"all", "x", "y", "zz"}

Ids(list) == {list[i].id : i \in 1..Len(list)}

FirstUrl == "https://api.spotify.com/v1/playlists/{playlist_id}/tracks"
NextUrl  == "https://api.spotify.com/v1/playlists/{playlist_id}/tracks?offset"

\* the truth value of a url in "while url"
Truthy(u) == u # None /\ u # ""

\* what the items endpoint may answer with at most room items: "items" and
\* "next" may be missing, "next" may be null
Responses(room) ==
    LET seqs == SeqsUpTo(Items, room)
    IN  {[items |-> s, next |-> n] : s \in seqs, n \in {NextUrl, None}}
        \cup {[items |-> s] : s \in seqs}
        \cup {[next |-> n] : n \in {NextUrl, None}}

\* The overrides a user typed into the file of an earlier run.
PriorEdits ==
    [sid \in {"t1", "a1"} |-> [year_override |-> "1990", title_override |-> "My Song"]]

\* The file an earlier run left for a target whose collection held ItemA,
\* with the overrides typed in since.
PriorFile(cfg) ==
    LET f == write_csv(NoFile, BuildRows(<<ItemA>>, Get(cfg, "type", "tracks"),
                                         cfg.playlist_url, [sid \in {} |-> 0]).rows).file
    IN  AFile([i \in 1..Len(f.lines) |->
                  IF i = 1 THEN f.lines[i]
                  ELSE [f.lines[i] EXCEPT
                          ![Col("year_override")] =
                              PriorEdits[f.lines[i][Col("spotifyId")]].year_override,
                          ![Col("title_override")] =
                              PriorEdits[f.lines[i][Col("spotifyId")]].title_override]])

PriorFiles == {NoFile} \cup {PriorFile(c) : c \in {TargetX, TargetY, TargetW}}

\* Faulty variant: the items of a page replace those of the pages before.
Extend_Overwrite(its, data) == Get(data, "items", <<>>)

\* get_playlist_tracks, line 66
Extend(its, data) == its \o Get(data, "items", <<>>)

\* get_playlist_tracks, line 67
NextOf(data) == Get(data, "next", None)

\* Faulty variant: "all" is looked up like an id.
Select_NoAll(all_playlists, category) ==
    SelectSeq(all_playlists, LAMBDA p : p.id = category)

\* main, lines 186-189
Select(all_playlists, category) ==
    IF category = "all" THEN all_playlists
    ELSE SelectSeq(all_playlists, LAMBDA p : p.id = category)

\* main, line 191
Available(all_playlists) == [i \in 1..Len(all_playlists) |-> all_playlists[i].id]

NoLocals ==
    /\ playlist_id' = <<>>
    /\ url' = None
    /\ items' = <<>>
    /\ overrides' = [sid \in {} |-> 0]
    /\ rows' = <<>>
    /\ stdout' = <<>>
    /\ served' = <<>>
    /\ nreq' = 0
    /\ full' = 0
    /\ more' = FALSE

\* An exception that nothing catches ends main.
Raise(e) ==
    /\ pc' = "failed"
    /\ err' = e

\* The same out of sync_one, whose locals go with it.
Abort(e) ==
    /\ Raise(e)
    /\ NoLocals

Init ==
    /\ pc = "idle"
    /\ playlists_file \in {[exists |-> TRUE, list |-> c] : c \in Configs}
                          \cup {[exists |-> FALSE, list |-> <<>>]}
    /\ CATEGORY_ID = "all"
    /\ to_sync = <<>>
    /\ idx = 0
    /\ token = None
    /\ playlist_id = <<>>
    /\ url = None
    /\ items = <<>>
    /\ overrides = [sid \in {} |-> 0]
    /\ rows = <<>>
    /\ stdout = <<>>
    /\ err = NoError
    /\ files \in {f \in [Ids(playlists_file.list) -> PriorFiles] :
                      \A i \in 1..Len(playlists_file.list) :
                          LET cfg == playlists_file.list[i]
                          IN  f[cfg.id] \in {NoFile, PriorFile(cfg)}}
    /\ files0 = files
    /\ served = <<>>
    /\ nreq = 0
    /\ full = 0
    /\ more = FALSE
    /\ requests = {}
    /\ written = <<>>
    /\ kept = [id \in Ids(playlists_file.list) |->
                  [stored  |-> IF files[id].exists THEN PriorEdits ELSE [sid \in {} |-> 0],
                   dropped |-> {}]]
    /\ runs = 0

\* The script is started: module level, lines 19-26.
StartRun ==
    /\ pc = "idle"
    /\ \E sel \in Selectors : CATEGORY_ID' = sel
    /\ pc' = "main"
    /\ runs' = runs + 1
    /\ files0' = files
    /\ UNCHANGED <<playlists_file, to_sync, idx, token, playlist_id, url, items,
                   overrides, rows, stdout, err, files, served, nreq, full, more, requests, written,
                   kept>>

\* main, lines 180-197
MainSelect ==
    /\ pc = "main"
    /\ LET all_playlists == playlists_file.list
           selected == Select(all_playlists, CATEGORY_ID)
       IN  IF ~playlists_file.exists
           THEN Raise([type |-> "FileNotFoundError", at |-> "main"]) /\ UNCHANGED to_sync
           ELSE IF CATEGORY_ID # "all" /\ selected = <<>>
           THEN /\ Raise([type |-> "ValueError", at |-> "main",
                          category |-> CATEGORY_ID,
                          available |-> Available(all_playlists)])
                /\ to_sync' = selected
           ELSE pc' = "token" /\ to_sync' = selected /\ UNCHANGED err
    /\ UNCHANGED <<playlists_file, CATEGORY_ID, idx, token, playlist_id, url, items,
                   overrides, rows, stdout, files, files0, served, nreq, full, more, requests, written,
                   kept, runs>>

\* main, line 198 (get_token, lines 36-44) and the entry of the loop, line 200
GetToken ==
    /\ pc = "token"
    /\ requests' = requests \cup {[kind |-> "token"]}
    /\ \/ Raise([type |-> "HTTPError", at |-> "token"]) /\ UNCHANGED <<token, idx>>
       \/ /\ token' = "access_token"
          /\ idx' = 1
          /\ pc' = "extract"
          /\ UNCHANGED err
    /\ UNCHANGED <<playlists_file, CATEGORY_ID, to_sync, playlist_id, url, items,
                   overrides, rows, stdout, files, files0, served, nreq, full, more, written, kept,
                   runs>>

\* sync_one, lines 144-152, and get_playlist_tracks, lines 58-61
ExtractId ==
    /\ pc = "extract"
    /\ LET r == extract_playlist_id(to_sync[idx].playlist_url)
       IN  IF r.raised
           THEN Abort([type |-> "ValueError", at |-> "extract"])
           ELSE /\ playlist_id' = r.id
                /\ url' = FirstUrl
                /\ pc' = "fetch"
                /\ UNCHANGED <<err, items, overrides, rows, stdout, served, nreq, full, more>>
    /\ UNCHANGED <<playlists_file, CATEGORY_ID, to_sync, idx, token, files, files0,
                   requests, written, kept, runs>>

\* get_playlist_tracks, lines 62-69: one iteration of the loop; sync_one, line 154
FetchPage ==
    /\ pc = "fetch"
    /\ Truthy(url)
    /\ requests' = requests \cup {[kind |-> "tracks", id |-> playlist_id]}
    /\ \/ Abort([type |-> "HTTPError", at |-> "fetch"])
       \/ \E data \in Responses(MaxItems - Len(items)) :
            /\ nreq' = nreq + 1
            /\ full' = IF Get(data, "items", <<>>) # <<>> THEN full + 1 ELSE full
            /\ Len(items) + Len(Get(data, "items", <<>>)) <= MaxItems
            /\ nreq + 1 >= MaxPages => ~Truthy(Get(data, "next", None))
            /\ items' = Extend(items, data)
            /\ url' = NextOf(data)
            /\ served' = served \o (IF "items" \in DOMAIN data THEN data.items ELSE <<>>)
            /\ more' = ("next" \in DOMAIN data /\ data.next = NextUrl)
            /\ IF Truthy(url')
               THEN pc' = "fetch" /\ UNCHANGED stdout
               ELSE /\ pc' = "load"
                    /\ stdout' = Append(stdout, [text |-> "Fetched", n |-> Len(items')])
            /\ UNCHANGED <<err, playlist_id, overrides, rows>>
    /\ UNCHANGED <<playlists_file, CATEGORY_ID, to_sync, idx, token, files, files0,
                   written, kept, runs>>

\* sync_one, lines 156-157
LoadOverrides ==
    /\ pc = "load"
    /\ LET f == files[to_sync[idx].id]
       IN  \/ /\ f.exists
              /\ Abort([type |-> "OSError", at |-> "load"])
           \/ /\ overrides' = load_overrides(f)
              /\ stdout' = Append(stdout, [text |-> "Preserving",
                                           n |-> Cardinality(DOMAIN overrides')])
              /\ pc' = "build"
              /\ served' = <<>>
              /\ nreq' = 0
              /\ full' = 0
              /\ more' = FALSE
              /\ UNCHANGED <<err, playlist_id, url, items, rows>>
    /\ UNCHANGED <<playlists_file, CATEGORY_ID, to_sync, idx, token, files, files0,
                   requests, written, kept, runs>>

\* Faulty variant: the file is opened for writing before the rows are built.
BuildStep_TruncatesFirst ==
    /\ pc = "build"
    /\ files' = [files EXCEPT ![to_sync[idx].id] = AFile(<<CSV_COLUMNS>>)]
    /\ LET cfg == to_sync[idx]
           r   == BuildRows(items, Get(cfg, "type", "tracks"), cfg.playlist_url,
                            overrides)
       IN  IF r.raised
           THEN Abort([type |-> "KeyError", at |-> "build"])
           ELSE /\ rows' = r.rows
                /\ pc' = "write"
                /\ UNCHANGED <<err, playlist_id, url, items, overrides, stdout, served,
                               nreq, full, more>>
    /\ UNCHANGED <<playlists_file, CATEGORY_ID, to_sync, idx, token, files0,
                   requests, written, kept, runs>>

\* sync_one, lines 159-172
BuildStep ==
    /\ pc = "build"
    /\ LET cfg == to_sync[idx]
           r   == BuildRows(items, Get(cfg, "type", "tracks"), cfg.playlist_url,
                            overrides)
       IN  IF r.raised
           THEN Abort([type |-> "KeyError", at |-> "build"])
           ELSE /\ rows' = r.rows
                /\ pc' = "write"
                /\ UNCHANGED <<err, playlist_id, url, items, overrides, stdout, served,
                               nreq, full, more>>
    /\ UNCHANGED <<playlists_file, CATEGORY_ID, to_sync, idx, token, files, files0,
                   requests, written, kept, runs>>

\* the overrides that a write of these lines leaves on disk
KeptAfter(k, f) ==
    LET present == {f.lines[i][Col("spotifyId")] : i \in 2..Len(f.lines)}
    IN  [stored  |-> [sid \in (DOMAIN k.stored) \cap present |-> k.stored[sid]],
         dropped |-> k.dropped \cup ((DOMAIN k.stored) \ present)]

\* sync_one, lines 174-175 (write_csv, lines 135-139)
WriteStep ==
    /\ pc = "write"
    /\ LET id == to_sync[idx].id
           w  == write_csv(files[id], rows)
       IN  \/ /\ Abort([type |-> "OSError", at |-> "write"])
              /\ UNCHANGED <<files, written, kept>>
           \/ /\ files' = [files EXCEPT ![id] = w.file]
              /\ kept' = [kept EXCEPT ![id] = KeptAfter(@, w.file)]
              /\ IF w.raised
                 THEN /\ Abort([type |-> "UnicodeEncodeError", at |-> "write"])
                      /\ UNCHANGED written
                 ELSE /\ stdout' = Append(stdout, [text |-> "Written", n |-> Len(rows)])
                      /\ written' = Append(written, rows)
                      /\ pc' = "returned"
                      /\ UNCHANGED <<err, playlist_id, url, items, overrides, rows,
                                     served, nreq, full, more>>
    /\ UNCHANGED <<playlists_file, CATEGORY_ID, to_sync, idx, token, files0, requests,
                   runs>>

\* main, lines 200-203: sync_one has returned, the loop goes on or ends
ForNext ==
    /\ pc = "returned"
    /\ NoLocals
    /\ IF idx < Len(to_sync)
       THEN idx' = idx + 1 /\ pc' = "extract"
       ELSE pc' = "done" /\ UNCHANGED idx
    /\ UNCHANGED <<playlists_file, CATEGORY_ID, to_sync, token, err, files, files0,
                   requests, written, kept, runs>>

\* The process ends, with "All done." or with the uncaught exception.
Exit ==
    /\ pc \in {"done", "failed"}
    /\ pc' = "exited"
    /\ NoLocals
    /\ to_sync' = <<>>
    /\ idx' = 0
    /\ token' = None
    /\ err' = NoError
    /\ files0' = files
    /\ requests' = {}
    /\ written' = <<>>
    /\ UNCHANGED <<playlists_file, CATEGORY_ID, files, kept, runs>>

\* The script is run again on the files the run before left.
Again ==
    /\ pc = "exited"
    /\ runs < MaxSyncs
    /\ pc' = "idle"
    /\ UNCHANGED <<playlists_file, CATEGORY_ID, to_sync, idx, token, playlist_id, url,
                   items, overrides, rows, stdout, err, files, files0, served, nreq,
                   full, more, requests, written, kept, runs>>

Next ==
    \/ StartRun
    \/ MainSelect
    \/ GetToken
    \/ ExtractId
    \/ FetchPage
    \/ LoadOverrides
    \/ BuildStep
    \/ WriteStep
    \/ ForNext
    \/ Exit

\* One run of the script, on any configuration and prior files.
Spec == Init /\ [][Next]_vars

\* Successive runs of the script on a configuration of one target.
InitHistory == Init /\ Len(playlists_file.list) = 1

NextHistory == Next \/ Again

SpecHistory == InitHistory /\ [][NextHistory]_vars

----------------------------------------------------------------------------
(* Vocabulary of the properties *)

\* the lines of a file after the header
Body(f) == IF Len(f.lines) = 0 THEN <<>>
           ELSE [i \in 1..(Len(f.lines) - 1) |-> f.lines[i + 1]]

Cur     == to_sync[idx]
CurType == Get(Cur, "type", "tracks")
Old     == files0[Cur.id]
New     == files[Cur.id]

\* sync_one has returned for the current target and main has not moved on
Returned == pc = "returned"

Sid(line) == line[Col("spotifyId")]

Canon(line) == <<line[Col("title")], line[Col("artist")], line[Col("year_spotify")],
                 line[Col("cover")], line[Col("type")]>>

CanonRow(r) == <<r.title, r.artist, r.year_spotify, r.cover, r.type>>

Local(item) ==
    "track" \in DOMAIN item /\ "is_local" \in DOMAIN item.track /\ item.track.is_local

Trackless(item) == "track" \notin DOMAIN item

\* the positions of the fetched items that have a global identity
Live == {j \in 1..Len(items) : ~Local(items[j]) /\ ~Trackless(items[j])}

ItemSid(item) == IF CurType = "albums" THEN item.track.album.id ELSE item.track.id

\* C1: after a successful sync_one every output row whose spotifyId occurs in
\* the prior table carries that prior row's year_override and title_override,
\* and every other output row has both empty.
C1_OverridesMerged ==
    Returned =>
        \A i \in 1..Len(Body(New)) :
            LET line  == Body(New)[i]
                prior == {k \in 1..Len(Body(Old)) : Sid(Body(Old)[k]) = Sid(line)}
            IN  IF prior = {}
                THEN line[Col("year_override")] = "" /\ line[Col("title_override")] = ""
                ELSE \A k \in prior :
                        /\ line[Col("year_override")] = Body(Old)[k][Col("year_override")]
                        /\ line[Col("title_override")] = Body(Old)[k][Col("title_override")]

\* A sync returned with one row that took a non-empty override from the prior
\* table and one row that is new to this run.
C1_Witness ==
    /\ Returned
    /\ \E i \in 1..Len(Body(New)) : \E k \in 1..Len(Body(Old)) :
          /\ Sid(Body(Old)[k]) = Sid(Body(New)[i])
          /\ Body(Old)[k][Col("year_override")] # ""
          /\ Body(Old)[k][Col("title_override")] # ""
    /\ \E i \in 1..Len(Body(New)) :
          \A k \in 1..Len(Body(Old)) : Sid(Body(Old)[k]) # Sid(Body(New)[i])

\* C2: the canonical fields (title, artist, year_spotify, cover, type) of the
\* rows written are those computed from the fetched items alone: they equal
\* what the same fetch gives with no prior table at all.
C2_CanonicalFresh ==
    Returned =>
        LET fresh == BuildRows(items, CurType, Cur.playlist_url, [sid \in {} |-> 0]).rows
        IN  /\ Len(Body(New)) = Len(fresh)
            /\ \A i \in 1..Len(fresh) : Canon(Body(New)[i]) = CanonRow(fresh[i])

\* A sync returned with a row whose prior row had other canonical values and
\* a non-empty override.
C2_Witness ==
    /\ Returned
    /\ \E i \in 1..Len(Body(New)) : \E k \in 1..Len(Body(Old)) :
          /\ Sid(Body(Old)[k]) = Sid(Body(New)[i])
          /\ Canon(Body(Old)[k]) # Canon(Body(New)[i])
          /\ Body(Old)[k][Col("title_override")] # ""

\* C3: the table written holds at most one row per spotifyId, and the row of
\* an id is derived from the first fetched item with that id.
C3_DedupFirst ==
    Returned =>
        /\ \A i, k \in 1..Len(Body(New)) :
              Sid(Body(New)[i]) = Sid(Body(New)[k]) => i = k
        /\ \A i \in 1..Len(Body(New)) :
              LET occ == {j \in Live : ItemSid(items[j]) = Sid(Body(New)[i])}
              IN  /\ occ # {}
                  /\ Canon(Body(New)[i]) =
                        CanonRow(RowFor(items[Min(occ)], CurType, Cur.playlist_url).row)

\* A sync returned whose fetch held two different items with the same id.
C3_Witness ==
    /\ Returned
    /\ \E j, k \in Live :
          /\ j < k
          /\ ItemSid(items[j]) = ItemSid(items[k])
          /\ items[j] # items[k]
    /\ Len(Body(New)) > 0

\* the number printed by the line of the current target that starts with text
Printed(text) == {stdout[k].n : k \in {m \in 1..Len(stdout) : stdout[m].text = text}}

NLocal == Cardinality({j \in 1..Len(items) : Local(items[j])})

\* C4 as claimed: locally-uploaded items never appear as a row and are in no
\* count the run reports for the target (fetched count, written count).
C4_LocalInNoCount ==
    Returned =>
        /\ \A i \in 1..Len(Body(New)) :
              \E j \in Live : ItemSid(items[j]) = Sid(Body(New)[i])
        /\ \A n \in Printed("Fetched") \cup Printed("Written") :
              n + NLocal <= Len(items)

\* C4 as amended: locally-uploaded items never appear as a row and are not in
\* the written count; the fetched count is the number of items fetched, local
\* ones included.
C4_LocalNotWritten ==
    Returned =>
        /\ \A i \in 1..Len(Body(New)) :
              \E j \in Live : ItemSid(items[j]) = Sid(Body(New)[i])
        /\ Printed("Written") = {Len(Body(New))}
        /\ \A n \in Printed("Written") : n + NLocal <= Len(items)
        /\ Printed("Fetched") = {Len(items)}

\* A sync returned whose fetch held a local item and an item that became a row.
C4_Witness ==
    /\ Returned
    /\ NLocal > 0
    /\ Len(Body(New)) > 0

\* the ids of the fetched items with a global identity, first occurrences, in
\* fetch order
RECURSIVE DistinctSids(_, _)
DistinctSids(j, acc) ==
    IF j > Len(items) THEN acc
    ELSE IF j \in Live /\ \A k \in 1..Len(acc) : acc[k] # ItemSid(items[j])
    THEN DistinctSids(j + 1, Append(acc, ItemSid(items[j])))
    ELSE DistinctSids(j + 1, acc)

\* C5: after a successful sync_one the file is the header followed by exactly
\* the rows built, in fetch order: nothing of the prior content remains.
C5_FullyReplaced ==
    Returned =>
        /\ New.exists
        /\ Len(New.lines) = Len(rows) + 1
        /\ New.lines[1] = CSV_COLUMNS
        /\ \A i \in 1..Len(rows) : \A j \in 1..Len(CSV_COLUMNS) :
              Body(New)[i][j] = rows[i][CSV_COLUMNS[j]]
        /\ [i \in 1..Len(Body(New)) |-> Sid(Body(New)[i])] = DistinctSids(1, <<>>)

\* A sync returned that wrote a row and whose prior table held a row with an
\* id absent from the fetch.
C5_Witness ==
    /\ Returned
    /\ Len(Body(New)) > 0
    /\ \E k \in 1..Len(Body(Old)) :
          \A i \in 1..Len(Body(New)) : Sid(Body(New)[i]) # Sid(Body(Old)[k])

\* C6: when sync_one fails while parsing the reference, fetching, loading the
\* prior table or building the rows, the file of the target is what it was
\* before the run; a file changes only in the write step, which is reached
\* with the fetch exhausted and the rows built.
C6_FailureLeavesTable ==
    /\ [](/\ (pc = "failed" /\ err.at \in {"extract", "fetch", "load", "build"})
                => files[Cur.id] = files0[Cur.id]
          /\ pc = "write"
                => /\ ~Truthy(url)
                   /\ rows = BuildRows(items, CurType, Cur.playlist_url, overrides).rows)
    /\ [][files' # files => pc = "write"]_vars

\* A sync failed while building the rows of a target that had a prior table.
C6_Witness ==
    /\ pc = "failed"
    /\ err.at = "build"
    /\ files0[Cur.id].exists
    /\ Len(Body(files0[Cur.id])) > 0

\* C7 as claimed: when target k of the run fails, the files of the targets
\* before k hold the output of this run, the files of k and of the targets
\* after it are unchanged, and no page of a target after k was requested.
C7_AbortLeavesRest ==
    (pc = "failed" /\ idx >= 1) =>
        /\ Len(written) = idx - 1
        /\ \A j \in 1..(idx - 1) :
              /\ files[to_sync[j].id].lines[1] = CSV_COLUMNS
              /\ Body(files[to_sync[j].id]) =
                    [i \in 1..Len(written[j]) |-> LineOf(written[j][i])]
        /\ \A j \in idx..Len(to_sync) : files[to_sync[j].id] = files0[to_sync[j].id]
        /\ \A j \in (idx + 1)..Len(to_sync) :
              [kind |-> "tracks",
               id |-> extract_playlist_id(to_sync[j].playlist_url).id] \notin requests

\* C8: get_playlist_tracks returns the concatenation of the items of the pages
\* served, in order; it requests a further page only after a page with a next
\* page, and returns only after a page without one.
C8_Pagination ==
    /\ pc \in {"fetch", "load"} => items = served
    /\ (pc = "fetch" /\ nreq > 0) => more
    /\ pc = "load" => (nreq > 0 /\ ~more)

\* A fetch returned after two pages that both held items.
C8_Witness ==
    /\ pc = "load"
    /\ nreq >= 2
    /\ full = nreq

\* C9: a selector that matches no configured id fails with an error that
\* lists all configured ids, before any request or write; "all" selects every
\* configured target, an id selects the targets with that id.
C9_Selection ==
    LET list == playlists_file.list
        ids  == {list[i].id : i \in 1..Len(list)}
    IN  /\ (pc = "failed" /\ err.at = "main" /\ err.type = "ValueError") =>
              /\ CATEGORY_ID \notin ids \cup {"all"}
              /\ err.available = [i \in 1..Len(list) |-> list[i].id]
              /\ requests = {}
              /\ token = None
              /\ files = files0
        /\ (playlists_file.exists /\ pc \notin {"idle", "main", "exited"}) =>
              /\ CATEGORY_ID \notin ids \cup {"all"}
                    => (pc = "failed" /\ err.at = "main" /\ err.type = "ValueError")
              /\ CATEGORY_ID = "all" => to_sync = list
              /\ CATEGORY_ID \in ids =>
                    /\ \A i \in 1..Len(to_sync) : to_sync[i].id = CATEGORY_ID
                    /\ Len(to_sync) =
                          Cardinality({i \in 1..Len(list) : list[i].id = CATEGORY_ID})

\* A run over several targets, one with a prior table, failed on an unknown
\* selector.
C9_Witness ==
    /\ pc = "failed"
    /\ err.at = "main"
    /\ err.type = "ValueError"
    /\ Len(playlists_file.list) >= 2
    /\ \E id \in DOMAIN files : files[id].exists

\* C10: across syncs, a row carries the override a user stored for its id as
\* long as every sync since fetched that id; once a sync has dropped the id,
\* the row of the id, if it reappears, has both overrides empty.
C10_OverrideLifetime ==
    \A id \in DOMAIN files :
        \A i \in 1..Len(Body(files[id])) :
            LET line == Body(files[id])[i]
            IN  IF Sid(line) \in DOMAIN kept[id].stored
                THEN /\ line[Col("year_override")] = kept[id].stored[Sid(line)].year_override
                     /\ line[Col("title_override")] = kept[id].stored[Sid(line)].title_override
                ELSE line[Col("year_override")] = "" /\ line[Col("title_override")] = ""

\* A later sync wrote a row for an id whose stored override an earlier sync
\* had dropped.
C10_Witness ==
    /\ Returned
    /\ runs >= 2
    /\ \E i \in 1..Len(Body(New)) : Sid(Body(New)[i]) \in kept[Cur.id].dropped

====
